---- MODULE Spec2Model ----
(***************************************************************************)
(* A model of the hoplight-vm evaluation core (vm/src/eval.rs,             *)
(* vm/src/noun.rs): the noun algebra, the tick-counted reducer with its    *)
(* call stack made explicit, and the content-addressed side effector.      *)
(***************************************************************************)
EXTENDS Integers, Sequences, FiniteSets, TLC

(***************************************************************************)
(* Bounds of the model.                                                    *)
(***************************************************************************)
\* Tick limits handed to eval are drawn from 0..MaxTickLimit.
MaxTickLimit == 30
\* A run that used t ticks is repeated under the limits 0..t + RerunMargin.
RerunMargin == 2
\* A formula evaluated part by part gets MaxTickLimit + TrialMargin ticks.
TrialMargin == 10

(***************************************************************************)
(* Nouns (noun.rs:4-9).  The three representations of the enum are kept    *)
(* apart: a byte atom, a multi-byte atom holding a little-endian byte      *)
(* vector, and a cell.                                                     *)
(***************************************************************************)
ByteAtom(x) == <<"ByteAtom", x>>
Atom(bs) == <<"Atom", bs>>
Cell(l, r) == <<"Cell", l, r>>

IsByteAtom(n) == n[1] = "ByteAtom"
IsVecAtom(n) == n[1] = "Atom"
is_cell(n) == n[1] = "Cell"

\* Noun::new_cell
new_cell(left, right) == Cell(left, right)

\* Noun::from_bool: true is 0 and false is 1.
from_bool(source) == ByteAtom(IF source THEN 0 ELSE 1)

from_u8(x) == ByteAtom(x)

\* Option values.
None == <<"None">>
Some(v) == <<"Some", v>>
Panic == <<"Panic">>

\* Results: Ok(noun) or Err(kind); BadOpcode carries the opcode byte.
Ok(n) == <<"Ok", n>>
Err(kind) == <<"Err", kind, 0>>
ErrBadOpcode(op) == <<"Err", "BadOpcode", op>>
IsOk(r) == r[1] = "Ok"
IsErr(r) == r[1] = "Err"
NoResult == <<"NoResult">>

\* The bytes an atom holds, in either representation.
AtomBytes(n) == IF IsByteAtom(n) THEN <<n[2]>> ELSE n[2]

RECURSIVE StripTrailingZeros(_)
StripTrailingZeros(bs) ==
    IF Len(bs) > 0 /\ bs[Len(bs)] = 0
    THEN StripTrailingZeros(SubSeq(bs, 1, Len(bs) - 1))
    ELSE bs

\* Numeric value of a little-endian byte sequence.
RECURSIVE NumVal(_)
NumVal(bs) == IF Len(bs) = 0 THEN 0 ELSE bs[1] + 256 * NumVal(Tail(bs))

\* Little-endian bytes of a natural, canonical (no trailing zero byte).
RECURSIVE BytesOf(_)
BytesOf(v) == IF v = 0 THEN <<>> ELSE <<v % 256>> \o BytesOf(v \div 256)

\* Noun::from_vec / Noun::from_slice: an atom from a little-endian byte
\* sequence, trailing zero bytes stripped to canonical form.
from_vec(bs) == Atom(StripTrailingZeros(bs))
from_slice(bs) == from_vec(bs)

\* impl PartialEq for Noun (noun.rs:11-22), arm by arm.
RECURSIVE eq(_, _)
eq(self, other) ==
    CASE is_cell(self) /\ is_cell(other) ->
           eq(self[2], other[2]) /\ eq(self[3], other[3])
      [] IsByteAtom(self) /\ IsByteAtom(other) -> self[2] = other[2]
      [] IsVecAtom(self) /\ IsVecAtom(other) -> self[2] = other[2]
      [] IsByteAtom(self) /\ IsVecAtom(other) ->
           Len(other[2]) = 1 /\ self[2] = other[2][1]
      [] IsVecAtom(self) /\ IsByteAtom(other) ->
           Len(self[2]) = 1 /\ self[2][1] = other[2]
      [] OTHER -> FALSE

\* Noun::equal (noun.rs:36-38)
equal(self, other) == from_bool(eq(self, other))

\* Noun::as_byte (noun.rs:40-54).  Slicing xs[1..] of an empty vector
\* is out of range and aborts.
as_byte(self) ==
    CASE IsByteAtom(self) -> Some(self[2])
      [] IsVecAtom(self) ->
           LET xs == self[2] IN
           IF Len(xs) = 0 THEN Panic
           ELSE IF \E i \in 2..Len(xs) : xs[i] # 0 THEN None
           ELSE Some(xs[1])
      [] OTHER -> None

\* Noun::as_u8: Some(v) iff the noun is an atom whose value fits in a byte.
as_u8(self) ==
    IF is_cell(self) THEN None
    ELSE IF NumVal(AtomBytes(self)) < 256 THEN Some(NumVal(AtomBytes(self)))
    ELSE None

\* Noun::into_cell / Noun::as_cell
into_cell(n) == IF is_cell(n) THEN Some(<<n[2], n[3]>>) ELSE None

\* into_triple (eval.rs:26-33)
into_triple(noun) ==
    IF is_cell(noun) /\ is_cell(noun[3])
    THEN Some(<<noun[2], noun[3][2], noun[3][3]>>)
    ELSE None

\* Structural equality as section 3.1 defines it: atoms by numeric value,
\* cells pairwise.
RECURSIVE StructEq(_, _)
StructEq(a, b) ==
    IF is_cell(a) \/ is_cell(b)
    THEN is_cell(a) /\ is_cell(b) /\ StructEq(a[2], b[2]) /\ StructEq(a[3], b[3])
    ELSE NumVal(AtomBytes(a)) = NumVal(AtomBytes(b))


(***************************************************************************)
(* Axis selector (axis module; section 4.2): CellAsIndex for a cell        *)
(* index, IndexOutOfRange for index 0 or a walk into an atom.              *)
(***************************************************************************)
RECURSIVE AxisWalk(_, _)
AxisWalk(n, v) ==
    IF v = 1 THEN Ok(n)
    ELSE LET parent == AxisWalk(n, v \div 2) IN
         IF IsErr(parent) THEN parent
         ELSE IF ~is_cell(parent[2]) THEN Err("IndexOutOfRange")
         ELSE Ok(IF v % 2 = 0 THEN parent[2][2] ELSE parent[2][3])

axis(n, a) ==
    IF is_cell(a) THEN Err("CellAsIndex")
    ELSE IF NumVal(AtomBytes(a)) = 0 THEN Err("IndexOutOfRange")
    ELSE AxisWalk(n, NumVal(AtomBytes(a)))

\* math::natural_add: the atom of the sum of two atoms' numeric values.
natural_add(a, b) ==
    IF is_cell(a) \/ is_cell(b) THEN Err("BadArgument")
    ELSE LET sum == NumVal(AtomBytes(a)) + NumVal(AtomBytes(b)) IN
         Ok(IF sum < 256 THEN from_u8(sum) ELSE from_vec(BytesOf(sum)))

(***************************************************************************)
(* Serializer / deserializer (serialize, deserialize modules; section      *)
(* 4.3): tag byte 0 and a length-prefixed byte run for an atom, tag byte 1 *)
(* and the two children for a cell.                                        *)
(***************************************************************************)
\* The widest atom the one-byte length field can describe.
MaxAtomLen == 255

RECURSIVE Encode(_)
Encode(n) ==
    IF is_cell(n) THEN <<1>> \o Encode(n[2]) \o Encode(n[3])
    ELSE <<0, Len(AtomBytes(n))>> \o AtomBytes(n)

RECURSIVE HasOverlongAtom(_)
HasOverlongAtom(n) ==
    IF is_cell(n) THEN HasOverlongAtom(n[2]) \/ HasOverlongAtom(n[3])
    ELSE Len(AtomBytes(n)) > MaxAtomLen

\* serialize::serialize(&noun, max_len)
serialize_noun(n, max_len) ==
    IF HasOverlongAtom(n) THEN Err("OverlongAtom")
    ELSE IF Len(Encode(n)) > max_len THEN Err("MaximumLengthExceeded")
    ELSE Ok(Encode(n))

\* One noun parsed from the front of bs: <<"Ok", noun, rest>> or <<"Bad">>.
RECURSIVE Decode(_)
Decode(bs) ==
    IF Len(bs) = 0 THEN <<"Bad">>
    ELSE IF bs[1] = 0 THEN
        IF Len(bs) < 2 \/ Len(bs) < 2 + bs[2] THEN <<"Bad">>
        ELSE <<"Ok", from_slice(SubSeq(bs, 3, 2 + bs[2])),
               SubSeq(bs, 3 + bs[2], Len(bs))>>
    ELSE IF bs[1] = 1 THEN
        LET l == Decode(Tail(bs)) IN
        IF l[1] = "Bad" THEN l
        ELSE LET r == Decode(l[3]) IN
             IF r[1] = "Bad" THEN r
             ELSE <<"Ok", new_cell(l[2], r[2]), r[3]>>
    ELSE <<"Bad">>

\* deserialize::deserialize(bytes)
deserialize(bs) ==
    LET d == Decode(bs) IN
    IF d[1] = "Ok" /\ Len(d[3]) = 0 THEN Ok(d[2]) ELSE Err("Deserialize")

(***************************************************************************)
(* The hash primitive.  BLAKE2b is consumed as a fixed-output function:    *)
(* 64 bytes, deterministic, collision-free on the buffers the model        *)
(* builds.  Some buffers hash to a digest whose last byte is zero.         *)
(***************************************************************************)
HashLen == 64

RECURSIVE SumBytes(_)
SumBytes(bs) == IF Len(bs) = 0 THEN 0 ELSE bs[1] + SumBytes(Tail(bs))

Blake2b(buffer) ==
    [i \in 1..HashLen |->
        IF i = HashLen THEN SumBytes(buffer) % 3
        ELSE IF i = HashLen - 1 THEN Len(buffer) % 256
        ELSE IF i <= Len(buffer) THEN buffer[i]
        ELSE 165]

(***************************************************************************)
(* Opcode numbers (opcode module; section 4.5).                            *)
(***************************************************************************)
AXIS == 0
LITERAL == 1
RECURSE == 2
IS_CELL == 3
INCREMENT == 4
IS_EQUAL == 5
IF_OP == 6
COMPOSE == 7
DEFINE_OP == 8
CALL == 9
HASH == 10
STORE_BY_HASH == 11
RETRIEVE_BY_HASH == 12

\* The serialized-size ceiling eval_on passes to the serializer.
SerializeMax == 1000000
\* The fixed part of the HASH / STORE_BY_HASH surcharge.
HashBaseCost == 20
\* The tag byte that prefixes every storage key.
KeyTag == 1

(***************************************************************************)
(* Inputs: the expressions handed to eval, built as the tests build them   *)
(* (u8 literals are byte atoms, byte slices are multi-byte atoms).         *)
(***************************************************************************)
B(x) == from_u8(x)
Op(opcode, argument) == Cell(B(opcode), argument)
Ax(a) == Op(AXIS, B(a))
Lit(x) == Op(LITERAL, x)
Retrieve == Op(RETRIEVE_BY_HASH, Ax(1))

\* test::decrement, formula part.
DecrementFormula ==
    Op(DEFINE_OP, Cell(Lit(B(0)),
      Op(DEFINE_OP, Cell(
        Lit(Op(IF_OP, Cell(Op(IS_EQUAL, Cell(Ax(7), Op(INCREMENT, Ax(6)))),
                      Cell(Ax(6),
                           Op(CALL, Cell(B(2), Cell(Ax(2),
                                Cell(Op(INCREMENT, Ax(6)), Ax(7))))))))),
        Op(CALL, Cell(B(2), Ax(1)))))))

\* A RECURSE that re-applies itself: it loops until the tick cap stops it.
LoopFormula == Op(RECURSE, Cell(Ax(1), Ax(1)))

\* IS_EQUAL applied to the subject (test::equal_op), and the pairs it is
\* given: byte atoms, multi-byte atoms with and without zero high bytes,
\* the empty byte sequence, and cells of them.
IsEqualOfSubject == Op(IS_EQUAL, Ax(1))
EqualAtoms == {B(5), Atom(<<5>>), Atom(<<5, 0>>), B(0), Atom(<<>>)}
EqualPairs ==
    (EqualAtoms \X EqualAtoms)
    \cup {<<Cell(B(5), B(0)), Cell(B(5), B(0))>>,
          <<Cell(B(5), B(0)), Cell(Atom(<<5, 0>>), Atom(<<>>))>>,
          <<Cell(B(5), B(0)), Cell(B(0), B(5))>>,
          <<Cell(B(5), B(0)), B(5)>>}

\* The nouns the programs below store and look up by hash.
Storables == {B(20), B(21)}

\* HASH of the subject, then RETRIEVE_BY_HASH on the atom HASH returned.
HashThenRetrieve == Op(COMPOSE, Cell(Op(HASH, Ax(1)), Retrieve))

\* An atom one byte wider than the serializer's length field describes.
OverlongAtom == Atom([i \in 1..(MaxAtomLen + 1) |-> 1])

Expressions ==
    {   \* not a cell
        B(5),
        Atom(<<1, 2>>),
        \* LITERAL, AXIS
        Cell(B(0), Lit(B(44))),
        Cell(Cell(B(98), B(99)), Ax(2)),
        Cell(Cell(B(98), B(99)), Ax(3)),
        Cell(Cell(B(98), B(99)), Op(AXIS, Atom(<<3, 0>>))),
        Cell(B(0), Ax(5)),
        Cell(B(0), Ax(0)),
        Cell(B(0), Op(AXIS, Cell(B(1), B(1)))),
        \* RECURSE
        Cell(Cell(B(123), Ax(1)), Op(RECURSE, Cell(Ax(2), Ax(3)))),
        Cell(B(0), Op(RECURSE, B(0))),
        Cell(LoopFormula, LoopFormula),
        \* IS_CELL, INCREMENT, IS_EQUAL
        Cell(Cell(B(99), B(33)), Op(IS_CELL, Ax(1))),
        Cell(B(99), Op(IS_CELL, Ax(1))),
        Cell(B(22), Op(INCREMENT, Ax(1))),
        Cell(B(255), Op(INCREMENT, Ax(1))),
        Cell(Cell(B(1), B(1)), Op(INCREMENT, Ax(1))),
        Cell(B(0), Op(IS_EQUAL, Ax(1))),
        \* distribute
        Cell(B(22), Cell(Op(INCREMENT, Ax(1)), Cell(Ax(1), Lit(B(50))))),
        \* IF
        Cell(B(42), Op(IF_OP, Cell(Lit(B(0)), Cell(Op(INCREMENT, Ax(1)), Lit(B(233)))))),
        Cell(B(42), Op(IF_OP, Cell(Lit(B(1)), Cell(Op(INCREMENT, Ax(1)), Lit(B(233)))))),
        Cell(B(42), Op(IF_OP, Cell(Lit(B(2)), Cell(Op(INCREMENT, Ax(1)), Lit(B(233)))))),
        Cell(B(42), Op(IF_OP, Cell(Ax(5), Cell(Ax(1), Ax(1))))),
        Cell(B(42), Op(IF_OP, Cell(Lit(B(0)), Cell(Ax(5), Ax(1))))),
        Cell(B(42), Op(IF_OP, Cell(Lit(B(0)), B(0)))),
        Cell(B(21), Op(IF_OP, Cell(Op(STORE_BY_HASH, Ax(1)), B(0)))),
        \* COMPOSE, DEFINE, CALL
        Cell(B(42), Op(COMPOSE, Cell(Op(INCREMENT, Ax(1)), Op(INCREMENT, Ax(1))))),
        Cell(B(42), Op(COMPOSE, B(0))),
        Cell(B(42), Op(DEFINE_OP, Cell(Op(INCREMENT, Ax(1)), Ax(1)))),
        Cell(B(42), Op(DEFINE_OP, Cell(Op(INCREMENT, Ax(1)), Op(INCREMENT, Ax(3))))),
        Cell(B(42), Op(DEFINE_OP, B(0))),
        Cell(Cell(Lit(B(7)), B(0)), Op(CALL, Cell(B(2), Ax(1)))),
        Cell(B(42), Op(CALL, Cell(B(2), Ax(1)))),
        Cell(B(42), Op(CALL, B(0))),
        Cell(B(1), DecrementFormula),
        \* HASH, STORE_BY_HASH, RETRIEVE_BY_HASH
        Cell(Atom(<<7, 7>>), Retrieve),
        Cell(Atom(<<>>), Retrieve),
        Cell(Atom(<<9>>), Retrieve),
        Cell(B(5), Retrieve),
        Cell(B(0), Op(RETRIEVE_BY_HASH, Op(IS_CELL, Ax(1)))),
        Cell(Cell(B(1), B(2)), Retrieve),
        Cell(B(21), Cell(Op(STORE_BY_HASH, Ax(1)), Ax(5))),
        Cell(B(21), Cell(Ax(5), Op(STORE_BY_HASH, Ax(1)))),
        Cell(OverlongAtom, Op(HASH, Ax(1))),
        Cell(OverlongAtom, Op(STORE_BY_HASH, Ax(1))),
        \* error kinds of the step itself
        Cell(B(0), B(5)),
        Cell(B(0), Cell(Atom(<<0, 1>>), B(0))),
        Cell(B(0), Op(13, B(0)))
    }
    \cup {Cell(Cell(p[1], p[2]), IsEqualOfSubject) : p \in EqualPairs}
    \cup {Cell(n, Op(HASH, Ax(1))) : n \in Storables}
    \cup {Cell(n, HashThenRetrieve) : n \in Storables}
    \cup {Cell(n, Op(STORE_BY_HASH, Ax(1))) : n \in Storables}

TickLimits == 0..MaxTickLimit

\* The atom HASH returns for n, and a subject holding a noun next to the
\* atom to look it up by (test::store_and_get obtains the atom from HASH).
HashOf(n) == from_slice(Blake2b(Encode(n)))
StoredPair == Cell(B(21), HashOf(B(21)))

\* Formulas with two sub-evaluations, kept in parts: distribute (b c),
\* RECURSE (b c), IF (b c d) and DEFINE (b c) against a subject.
Case(kind, s, b, c, d) ==
    [kind |-> kind, subject |-> s, b |-> b, c |-> c, d |-> d]

Whole(t) ==
    CASE t.kind = "distribute" -> Cell(t.b, t.c)
      [] t.kind = "recurse" -> Op(RECURSE, Cell(t.b, t.c))
      [] t.kind = "if" -> Op(IF_OP, Cell(t.b, Cell(t.c, t.d)))
      [] t.kind = "define" -> Op(DEFINE_OP, Cell(t.b, t.c))

Store(a) == Op(STORE_BY_HASH, Ax(a))
Increment == Op(INCREMENT, Ax(1))

Trials ==
    {   \* test::distribute
        Case("distribute", B(22), Increment, Cell(Ax(1), Lit(B(50))), B(0)),
        Case("distribute", StoredPair, Store(2), Op(RETRIEVE_BY_HASH, Ax(3)), B(0)),
        Case("distribute", StoredPair, Op(RETRIEVE_BY_HASH, Ax(3)), Store(2), B(0)),
        Case("distribute", Cell(B(20), B(21)), Store(2), Store(3), B(0)),
        Case("distribute", B(21), Ax(5), Store(1), B(0)),
        \* test::store_and_get
        Case("recurse", B(21), Cell(Store(1), Increment), Lit(Ax(3)), B(0)),
        Case("recurse", StoredPair, Store(2), Op(RETRIEVE_BY_HASH, Ax(3)), B(0)),
        Case("recurse", B(21), Ax(5), Store(1), B(0)),
        \* test::if_true, test::if_false
        Case("if", B(42), Lit(B(0)), Increment, Lit(B(233))),
        Case("if", B(42), Lit(B(1)), Increment, Lit(B(233))),
        Case("if", B(42), Lit(Atom(<<>>)), Increment, Lit(B(233))),
        Case("if", B(42), Lit(Atom(<<1, 0>>)), Increment, Lit(B(233))),
        Case("if", B(21), Lit(B(2)), Store(1), Store(1)),
        Case("if", B(21), Lit(Cell(B(0), B(0))), Store(1), Store(1)),
        Case("if", B(21), Lit(B(0)), Lit(B(7)), Store(1)),
        Case("if", B(21), Lit(B(1)), Store(1), Lit(B(7))),
        Case("if", StoredPair, Store(2), Op(RETRIEVE_BY_HASH, Ax(3)), Store(1)),
        Case("if", B(21), Ax(5), Store(1), Store(1)),
        \* test::push_1, test::push_2
        Case("define", B(42), Increment, Ax(1), B(0)),
        Case("define", B(42), Increment, Op(INCREMENT, Ax(3)), B(0)),
        Case("define", B(42), Increment, Cell(Ax(3), Ax(2)), B(0)),
        Case("define", StoredPair, Store(2), Op(RETRIEVE_BY_HASH, Ax(7)), B(0)),
        Case("define", B(42), Ax(5), Ax(1), B(0))
    }

\* The nouns Noun::as_byte is called on.
ByteInputs ==
    {B(0), B(7), B(255), Atom(<<>>), Atom(<<7>>), Atom(<<0>>), Atom(<<7, 0>>),
     Atom(<<7, 0, 0>>), Atom(<<0, 1>>), Atom(<<7, 0, 1>>), Atom(<<255>>),
     Cell(B(1), B(2)), Cell(Atom(<<>>), B(0))}

\* What the side effector holds before the first evaluation: one entry
\* some other writer left, whose bytes do not deserialize.
InitialStorage == {<<<<KeyTag, 9>>, <<7>>>>}

(***************************************************************************)
(* State.                                                                  *)
(***************************************************************************)
VARIABLES
    phase,        \* "idle", "running" (inside eval), "done" (eval returned)
    expression,   \* the expression of the current evaluation
    stack,        \* the live eval_on invocations, outermost first
    ret,          \* the value a callee just returned to the top frame
    result,       \* what eval returned
    ticks_used,   \* Computation.ticks_used
    tick_cap,     \* Computation.tick_cap
    storage,      \* the side effector's contents: a set of <<key, value>>
    storage0,     \* the contents when the current evaluation started
    store_calls,  \* the store calls of the current evaluation, in order
    load_calls,   \* the load calls of the current evaluation, in order
    iterations,   \* loop iterations started in the current evaluation
    last_charge,  \* ticks_used right after the latest one-tick charge
    surcharge,    \* the HASH / STORE_BY_HASH surcharges added so far
    raised,       \* the first error raised and the counts at that moment
    tail,         \* <<opcode, depth at dispatch>> of a pending continuation
    reference,    \* an earlier terminated run of the same expression
    trial,        \* a formula being evaluated part by part, then whole
    probe         \* the latest call of Noun::as_byte: <<noun, returned>>

vars == <<phase, expression, stack, ret, result, ticks_used, tick_cap,
          storage, storage0, store_calls, load_calls, iterations,
          last_charge, surcharge, raised, tail, reference, trial, probe>>

NoTail == <<-1, 0>>
NoReference == <<"NoReference">>
\* No run recorded, and no formula being evaluated part by part.
NoRun ==
    [expression |-> <<"ByteAtom", 0>>, result |-> <<"NoResult">>,
     storage |-> {}, stores |-> <<>>, loads |-> <<>>, iterations |-> 0,
     ticks |-> 0]
NoTrial ==
    [case |-> [kind |-> "none", subject |-> <<"ByteAtom", 0>>,
               b |-> <<"ByteAtom", 0>>, c |-> <<"ByteAtom", 0>>,
               d |-> <<"ByteAtom", 0>>],
     stage |-> "none", st0 |-> {}, head |-> NoRun, alone |-> NoRun,
     after |-> NoRun]
NoProbe == <<"NoProbe">>
TickLimitExceeded == Err("TickLimitExceeded")

NewFrame(subject, formula) ==
    [subject |-> subject, formula |-> formula, pc |-> "loop",
     saved |-> B(0), at |-> 0]

top == stack[Len(stack)]
depth == Len(stack)

\* SideEffectEngine::load / store (the test engine's map, eval.rs:245-250).
Load(key) ==
    IF \E p \in storage : p[1] = key
    THEN Some((CHOOSE p \in storage : p[1] = key)[2])
    ELSE None
StoreInto(st, key, value) == {p \in st : p[1] # key} \cup {<<key, value>>}

Init ==
    /\ phase = "idle"
    /\ expression = B(0)
    /\ stack = <<>>
    /\ ret = NoResult
    /\ result = NoResult
    /\ ticks_used = 0
    /\ tick_cap = 0
    /\ storage = InitialStorage
    /\ storage0 = storage
    /\ store_calls = <<>>
    /\ load_calls = <<>>
    /\ iterations = 0
    /\ last_charge = 0
    /\ surcharge = 0
    /\ raised = NoResult
    /\ tail = NoTail
    /\ reference = NoReference
    /\ trial = NoTrial
    /\ probe = NoProbe

(***************************************************************************)
(* Building blocks of the actions.                                         *)
(***************************************************************************)
Raised(e, its, stores, loads) == <<"Raised", e, its, stores, loads>>

\* Computation::serialize (eval.rs:194-200)
Serialize(noun) ==
    LET r == serialize_noun(noun, SerializeMax) IN
    IF IsOk(r) THEN r
    ELSE IF r = Err("OverlongAtom") THEN Err("BadArgument")
    ELSE Err("MemoryExceeded")

\* The frame on top returns v to its caller, or to eval's caller when it
\* is the outermost frame.
Return(v) ==
    /\ stack' = SubSeq(stack, 1, Len(stack) - 1)
    /\ IF Len(stack) = 1
       THEN phase' = "done" /\ result' = v /\ ret' = NoResult
       ELSE phase' = phase /\ result' = result /\ ret' = v

ReturnOk(n) == Return(Ok(n)) /\ raised' = raised

\* The frame on top returns an error it raises itself.
Raise(e) ==
    /\ Return(e)
    /\ raised' = IF raised = NoResult
                 THEN Raised(e, iterations', Len(store_calls'), Len(load_calls'))
                 ELSE raised

ReturnResult(r) == IF IsErr(r) THEN Raise(r) ELSE ReturnOk(r[2])

\* self.eval_on(subject, formula) called from the frame on top, which
\* becomes `frame` while it waits.
Call(frame, subject, formula) ==
    /\ stack' = Append([stack EXCEPT ![Len(stack)] = frame],
                       NewFrame(subject, formula))
    /\ ret' = NoResult
    /\ raised' = raised
    /\ UNCHANGED <<phase, result>>

\* A continuation made by a nested call of eval_on.
ContinueByCall(subject, formula) ==
    /\ stack' = Append(stack, NewFrame(subject, formula))
    /\ ret' = NoResult
    /\ raised' = raised
    /\ UNCHANGED <<phase, result>>

\* continue 'tail_recurse with new iteration variables.
Continue(subject, formula) ==
    /\ stack' = [stack EXCEPT ![Len(stack)] = NewFrame(subject, formula)]
    /\ ret' = NoResult
    /\ raised' = raised
    /\ UNCHANGED <<phase, result>>

Waiting(pc) == [top EXCEPT !.pc = pc, !.at = depth]
Saving(pc, noun) == [top EXCEPT !.pc = pc, !.saved = noun]

Quiet == UNCHANGED <<expression, tick_cap, storage0, reference, trial, probe>>
NoEffects == UNCHANGED <<storage, store_calls, load_calls>>
NoCharge == UNCHANGED <<ticks_used, iterations, last_charge, surcharge>>

\* eval_on lines 55: one tick per loop iteration.
Charge ==
    /\ ticks_used' = ticks_used + 1
    /\ iterations' = iterations + 1
    /\ last_charge' = ticks_used + 1
    /\ surcharge' = surcharge
    /\ tail' = NoTail

AtLoop == phase = "running" /\ ret = NoResult /\ top.pc = "loop"
\* A tick check that lets the counter reach the cap.
LimitReachedLate == ticks_used + 1 > tick_cap

\* eval_on line 56, on the counter as line 55 leaves it.
LimitReached == ticks_used + 1 >= tick_cap
\* A step that inspects the formula without the tick check.
PassedUnchecked == AtLoop

Passed == AtLoop /\ ~LimitReached
Dispatching(opcode) ==
    /\ Passed
    /\ is_cell(top.formula)
    /\ ~is_cell(top.formula[2])
    /\ as_u8(top.formula[2]) = Some(opcode)
argument == top.formula[3]
StepFrame == Charge /\ NoEffects /\ Quiet

Resuming(pc) ==
    phase = "running" /\ ret # NoResult /\ IsOk(ret) /\ top.pc = pc
value == ret[2]
ResumeFrame == NoCharge /\ NoEffects /\ Quiet

(***************************************************************************)
(* eval (eval.rs:204-214) and the harness that calls it.                   *)
(***************************************************************************)
Start(e, k, st) ==
    /\ expression' = e
    /\ tick_cap' = k
    /\ ticks_used' = 0
    /\ storage' = st
    /\ storage0' = st
    /\ store_calls' = <<>>
    /\ load_calls' = <<>>
    /\ iterations' = 0
    /\ last_charge' = 0
    /\ surcharge' = 0
    /\ tail' = NoTail
    /\ ret' = NoResult
    /\ IF into_cell(e) # None
       THEN /\ phase' = "running"
            /\ stack' = <<NewFrame(into_cell(e)[2][1], into_cell(e)[2][2])>>
            /\ result' = NoResult
            /\ raised' = NoResult
       ELSE /\ phase' = "done"
            /\ stack' = <<>>
            /\ result' = Err("Something")
            /\ raised' = Raised(Err("Something"), 0, 0, 0)

\* eval(expression, side_effector, tick_limit) on the engine as it stands,
\* with the most generous limit first.
Eval ==
    /\ phase = "idle"
    /\ \E e \in Expressions : Start(e, MaxTickLimit, storage)
    /\ reference' = NoReference
    /\ trial' = NoTrial
    /\ probe' = NoProbe

\* The caller is finished with the result; the engine keeps its contents.
Discard ==
    /\ phase = "done"
    /\ phase' = "idle"
    /\ expression' = B(0)
    /\ result' = NoResult
    /\ ticks_used' = 0
    /\ tick_cap' = 0
    /\ storage0' = storage
    /\ store_calls' = <<>>
    /\ load_calls' = <<>>
    /\ iterations' = 0
    /\ last_charge' = 0
    /\ surcharge' = 0
    /\ raised' = NoResult
    /\ reference' = NoReference
    /\ trial' = NoTrial
    /\ UNCHANGED <<stack, ret, storage, tail, probe>>

\* The limits worth trying after a run that used ticks_used ticks: every
\* limit up to RerunMargin above that count (a larger limit is never
\* reached by the counter), and the most generous one.
RerunLimits ==
    {k \in TickLimits : k <= ticks_used + RerunMargin} \cup {MaxTickLimit}

\* eval of the expression of a run under the most generous limit again,
\* with another tick limit, on an engine in the state the engine had when
\* that run started.  The first terminated run is kept as the reference.
Rerun ==
    /\ phase = "done"
    /\ trial = NoTrial
    /\ tick_cap = MaxTickLimit
    /\ \E k \in RerunLimits : Start(expression, k, storage0)
    /\ reference' = IF reference = NoReference /\ result # TickLimitExceeded
                    THEN <<"Reference", ticks_used, last_charge, result>>
                    ELSE reference
    /\ UNCHANGED <<trial, probe>>

\* What a finished evaluation returned and did.
Outcome ==
    [expression |-> expression, result |-> result, storage |-> storage,
     stores |-> store_calls, loads |-> load_calls,
     iterations |-> iterations, ticks |-> ticks_used]

TrialTickLimit == MaxTickLimit + TrialMargin

\* The sub-evaluation that follows the first one, given the noun n the
\* first one returned: IF selects c on atom 0 and d on atom 1, DEFINE
\* evaluates c against the cell of n and the subject.
HasLater(t, r) ==
    IsOk(r) /\ (t.kind = "if" => as_u8(r[2]) \in {Some(0), Some(1)})
LaterFormula(t, n) ==
    IF t.kind = "if" /\ as_u8(n) # Some(0) THEN t.d ELSE t.c
LaterSubject(t, n) ==
    IF t.kind = "define" THEN new_cell(n, t.subject) ELSE t.subject
Later(t, r) == Cell(LaterSubject(t, r[2]), LaterFormula(t, r[2]))

\* eval of the first sub-formula b of a case against the case's subject.
TrialHead ==
    /\ phase = "idle"
    /\ \E t \in Trials :
          /\ Start(Cell(t.subject, t.b), TrialTickLimit, storage)
          /\ trial' = [case |-> t, stage |-> "head", st0 |-> storage,
                       head |-> NoRun, alone |-> NoRun, after |-> NoRun]
    /\ reference' = NoReference
    /\ probe' = NoProbe

\* eval of the later sub-formula on an engine in the state the engine had
\* before the first sub-formula ran.
TrialAlone ==
    /\ phase = "done"
    /\ trial # NoTrial
    /\ trial.stage = "head"
    /\ HasLater(trial.case, result)
    /\ Start(Later(trial.case, result), TrialTickLimit, trial.st0)
    /\ trial' = [trial EXCEPT !.stage = "alone", !.head = Outcome]
    /\ UNCHANGED <<reference, probe>>

\* eval of the later sub-formula on the engine as the first one left it.
TrialAfter ==
    /\ phase = "done"
    /\ trial # NoTrial
    /\ trial.stage = "alone"
    /\ Start(Later(trial.case, trial.head.result), TrialTickLimit,
             trial.head.storage)
    /\ trial' = [trial EXCEPT !.stage = "after", !.alone = Outcome]
    /\ UNCHANGED <<reference, probe>>

\* eval of the whole formula on an engine in the state the engine had
\* before the parts ran.
TrialWhole ==
    /\ phase = "done"
    /\ trial # NoTrial
    /\ \/ /\ trial.stage = "after"
          /\ trial' = [trial EXCEPT !.stage = "whole", !.after = Outcome]
       \/ /\ trial.stage = "head"
          /\ ~HasLater(trial.case, result)
          /\ trial' = [trial EXCEPT !.stage = "whole", !.head = Outcome]
    /\ Start(Cell(trial.case.subject, Whole(trial.case)), TrialTickLimit,
             trial.st0)
    /\ UNCHANGED <<reference, probe>>

\* A caller asks a noun for its byte.
AsByte ==
    /\ phase = "idle"
    /\ \E n \in ByteInputs : probe' = <<n, as_byte(n)>>
    /\ UNCHANGED <<phase, expression, stack, ret, result, ticks_used,
                   tick_cap, storage, storage0, store_calls, load_calls,
                   iterations, last_charge, surcharge, raised, tail,
                   reference, trial>>

(***************************************************************************)
(* Computation::eval_on (eval.rs:53-192): one loop iteration up to its     *)
(* first sub-evaluation, return or error.                                  *)
(***************************************************************************)
\* lines 55-58
StepTickLimit ==
    /\ AtLoop
    /\ LimitReached
    /\ StepFrame
    /\ Raise(TickLimitExceeded)

\* line 60
StepAtomicFormula ==
    /\ Passed
    /\ into_cell(top.formula) = None
    /\ StepFrame
    /\ Raise(Err("AtomicFormula"))

\* A distribute that evaluates its tail where its head belongs.
StepDistributeTailFirst ==
    /\ Passed
    /\ is_cell(top.formula)
    /\ is_cell(top.formula[2])
    /\ StepFrame
    /\ Call(Waiting("dist_lhs"), top.subject, top.formula[3])

\* lines 61-63
StepDistribute ==
    /\ Passed
    /\ is_cell(top.formula)
    /\ is_cell(top.formula[2])
    /\ StepFrame
    /\ Call(Waiting("dist_lhs"), top.subject, top.formula[2])

\* line 68
StepNotAnOpcode ==
    /\ Passed
    /\ is_cell(top.formula)
    /\ ~is_cell(top.formula[2])
    /\ as_u8(top.formula[2]) = None
    /\ StepFrame
    /\ Raise(Err("NotAnOpcode"))

\* line 71
StepAxis ==
    /\ Dispatching(AXIS)
    /\ StepFrame
    /\ ReturnResult(axis(top.subject, argument))

\* line 72
StepLiteral ==
    /\ Dispatching(LITERAL)
    /\ StepFrame
    /\ ReturnOk(argument)

\* lines 73-75, 80-82
StepRecurse ==
    /\ Dispatching(RECURSE)
    /\ StepFrame
    /\ IF into_cell(argument) # None
       THEN Call(Waiting("recurse_b"), top.subject, argument[2])
       ELSE Raise(Err("BadRecurseArgument"))

\* lines 84-85
StepIsCell ==
    /\ Dispatching(IS_CELL)
    /\ StepFrame
    /\ Call(Waiting("is_cell"), top.subject, argument)

\* lines 87-88
StepIncrement ==
    /\ Dispatching(INCREMENT)
    /\ StepFrame
    /\ Call(Waiting("increment"), top.subject, argument)

\* lines 90-91
StepIsEqual ==
    /\ Dispatching(IS_EQUAL)
    /\ StepFrame
    /\ Call(Waiting("is_equal"), top.subject, argument)

\* lines 97-99, 111-113
StepIf ==
    /\ Dispatching(IF_OP)
    /\ StepFrame
    /\ IF into_triple(argument) # None
       THEN Call(Waiting("if_cond"), top.subject, into_triple(argument)[2][1])
       ELSE Raise(Err("BadArgument"))

\* lines 115-117, 121-123
StepCompose ==
    /\ Dispatching(COMPOSE)
    /\ StepFrame
    /\ IF into_cell(argument) # None
       THEN Call(Waiting("compose_b"), top.subject, argument[2])
       ELSE Raise(Err("BadArgument"))

\* lines 125-127, 131-133
StepDefine ==
    /\ Dispatching(DEFINE_OP)
    /\ StepFrame
    /\ IF into_cell(argument) # None
       THEN Call(Waiting("define_b"), top.subject, argument[2])
       ELSE Raise(Err("BadArgument"))

\* lines 135-137, 142-144
StepCall ==
    /\ Dispatching(CALL)
    /\ StepFrame
    /\ IF into_cell(argument) # None
       THEN Call(Waiting("call_c"), top.subject, argument[3])
       ELSE Raise(Err("BadArgument"))

\* lines 146-147
StepHash ==
    /\ Dispatching(HASH)
    /\ StepFrame
    /\ Call(Waiting("hash"), top.subject, argument)

\* lines 154-155
StepStoreByHash ==
    /\ Dispatching(STORE_BY_HASH)
    /\ StepFrame
    /\ Call(Waiting("store_by_hash"), top.subject, argument)

\* lines 164-165
StepRetrieveByHash ==
    /\ Dispatching(RETRIEVE_BY_HASH)
    /\ StepFrame
    /\ Call(Waiting("retrieve_by_hash"), top.subject, argument)

\* line 189
StepBadOpcode ==
    /\ \E opcode \in (RETRIEVE_BY_HASH + 1)..255 :
          /\ Dispatching(opcode)
          /\ StepFrame
          /\ Raise(ErrBadOpcode(opcode))

(***************************************************************************)
(* eval_on after a sub-evaluation returned: try! hands an error on to the  *)
(* caller, an Ok value resumes the opcode where it waited.                 *)
(***************************************************************************)
\* An error of distribute's head swallowed: the tail is evaluated anyway.
PropagateSwallowed ==
    /\ phase = "running"
    /\ ret # NoResult
    /\ IsErr(ret)
    /\ ResumeFrame
    /\ tail' = tail
    /\ IF top.pc = "dist_lhs"
       THEN Call(Saving("dist_rhs", B(0)), top.subject, argument)
       ELSE Return(ret) /\ raised' = raised

\* try! on an Err (lines 63, 64, 75, 76, 85, 88, 91, 99, 117, 127, 137,
\* 147, 155, 165) and the branch call of IF returning an Err (102, 105).
Propagate ==
    /\ phase = "running"
    /\ ret # NoResult
    /\ IsErr(ret)
    /\ ResumeFrame
    /\ tail' = tail
    /\ Return(ret)
    /\ raised' = raised

\* line 64
ResumeDistributeLhs ==
    /\ Resuming("dist_lhs")
    /\ ResumeFrame
    /\ tail' = tail
    /\ Call(Saving("dist_rhs", value), top.subject, argument)

\* Distribute pairing its results the wrong way round.
ResumeDistributeRhsSwapped ==
    /\ Resuming("dist_rhs")
    /\ ResumeFrame
    /\ tail' = tail
    /\ ReturnOk(new_cell(value, top.saved))

\* line 65
ResumeDistributeRhs ==
    /\ Resuming("dist_rhs")
    /\ ResumeFrame
    /\ tail' = tail
    /\ ReturnOk(new_cell(top.saved, value))

\* line 76
ResumeRecurseB ==
    /\ Resuming("recurse_b")
    /\ ResumeFrame
    /\ tail' = tail
    /\ Call(Saving("recurse_c", value), top.subject, argument[3])

\* lines 77-79
ResumeRecurseC ==
    /\ Resuming("recurse_c")
    /\ ResumeFrame
    /\ tail' = <<RECURSE, top.at>>
    /\ Continue(top.saved, value)

\* line 85
ResumeIsCell ==
    /\ Resuming("is_cell")
    /\ ResumeFrame
    /\ tail' = tail
    /\ ReturnOk(from_bool(is_cell(value)))

\* line 88
ResumeIncrement ==
    /\ Resuming("increment")
    /\ ResumeFrame
    /\ tail' = tail
    /\ ReturnResult(natural_add(value, from_u8(1)))

\* lines 91-95
ResumeIsEqual ==
    /\ Resuming("is_equal")
    /\ ResumeFrame
    /\ tail' = tail
    /\ IF into_cell(value) # None
       THEN ReturnOk(equal(value[2], value[3]))
       ELSE Raise(Err("BadEqualsArgument"))

\* An IF that takes every condition other than 0 for loobean false.
ResumeIfCondLax ==
    /\ Resuming("if_cond")
    /\ ResumeFrame
    /\ LET condition == as_u8(value)
           bcd == into_triple(argument)[2]
       IN  IF condition = Some(0)
           THEN /\ Call(Saving("if_branch", value), top.subject, bcd[2])
                /\ tail' = <<IF_OP, top.at>>
           ELSE /\ Call(Saving("if_branch", value), top.subject, bcd[3])
                /\ tail' = <<IF_OP, top.at>>

\* lines 100-110: the taken branch is a call of eval_on.
ResumeIfCond ==
    /\ Resuming("if_cond")
    /\ ResumeFrame
    /\ LET condition == as_u8(value)
           bcd == into_triple(argument)[2]
       IN  IF condition = Some(0)
           THEN /\ Call(Saving("if_branch", value), top.subject, bcd[2])
                /\ tail' = <<IF_OP, top.at>>
           ELSE IF condition = Some(1)
           THEN /\ Call(Saving("if_branch", value), top.subject, bcd[3])
                /\ tail' = <<IF_OP, top.at>>
           ELSE /\ Raise(Err("BadIfCondition"))
                /\ tail' = tail

\* lines 102, 105: the branch's value is the value of IF.
ResumeIfBranch ==
    /\ Resuming("if_branch")
    /\ ResumeFrame
    /\ tail' = tail
    /\ ReturnOk(value)

\* lines 118-120
ResumeCompose ==
    /\ Resuming("compose_b")
    /\ ResumeFrame
    /\ tail' = <<COMPOSE, top.at>>
    /\ Continue(value, argument[3])

\* A DEFINE that puts the original subject in front of the result of b.
ResumeDefineSwapped ==
    /\ Resuming("define_b")
    /\ ResumeFrame
    /\ tail' = <<DEFINE_OP, top.at>>
    /\ Continue(new_cell(top.subject, value), argument[3])

\* lines 128-130
ResumeDefine ==
    /\ Resuming("define_b")
    /\ ResumeFrame
    /\ tail' = <<DEFINE_OP, top.at>>
    /\ Continue(new_cell(value, top.subject), argument[3])

\* lines 138-141
ResumeCall ==
    /\ Resuming("call_c")
    /\ ResumeFrame
    /\ LET inner_formula == axis(value, argument[2]) IN
       IF IsErr(inner_formula)
       THEN Raise(inner_formula) /\ tail' = tail
       ELSE Continue(value, inner_formula[2]) /\ tail' = <<CALL, top.at>>

\* A storage key without its tag byte.
StoreKeyUntagged(buffer) == Blake2b(buffer)

\* The key STORE_BY_HASH writes under (lines 158-160).
StoreKey(buffer) == <<KeyTag>> \o Blake2b(buffer)

\* The key RETRIEVE_BY_HASH reads (lines 167-169).
PrefixedHash(x) == <<KeyTag>> \o x

\* A surcharge without its fixed part.
HashCostFlat(buffer) == Len(buffer)

\* The surcharge of HASH and STORE_BY_HASH (lines 149, 157).
HashCost(buffer) == HashBaseCost + Len(buffer)

\* A HASH that also stores the buffer, as STORE_BY_HASH does.
ResumeHashStoring ==
    /\ Resuming("hash")
    /\ Quiet
    /\ tail' = tail
    /\ UNCHANGED <<iterations, last_charge, load_calls>>
    /\ LET buffer == Serialize(value) IN
       IF IsErr(buffer)
       THEN /\ UNCHANGED <<ticks_used, surcharge, storage, store_calls>>
            /\ Raise(buffer)
       ELSE /\ ticks_used' = ticks_used + HashCost(buffer[2])
            /\ surcharge' = surcharge + HashCost(buffer[2])
            /\ storage' = StoreInto(storage, StoreKey(buffer[2]), buffer[2])
            /\ store_calls' =
                 Append(store_calls, <<StoreKey(buffer[2]), buffer[2], value>>)
            /\ ReturnOk(from_slice(Blake2b(buffer[2])))

\* lines 148-152
ResumeHash ==
    /\ Resuming("hash")
    /\ NoEffects /\ Quiet
    /\ tail' = tail
    /\ UNCHANGED <<iterations, last_charge>>
    /\ LET buffer == Serialize(value) IN
       IF IsErr(buffer)
       THEN /\ UNCHANGED <<ticks_used, surcharge>>
            /\ Raise(buffer)
       ELSE /\ ticks_used' = ticks_used + HashCost(buffer[2])
            /\ surcharge' = surcharge + HashCost(buffer[2])
            /\ ReturnOk(from_slice(Blake2b(buffer[2])))

\* lines 156-162
ResumeStoreByHash ==
    /\ Resuming("store_by_hash")
    /\ Quiet
    /\ tail' = tail
    /\ UNCHANGED <<iterations, last_charge, load_calls>>
    /\ LET buffer == Serialize(value) IN
       IF IsErr(buffer)
       THEN /\ UNCHANGED <<ticks_used, surcharge, storage, store_calls>>
            /\ Raise(buffer)
       ELSE /\ ticks_used' = ticks_used + HashCost(buffer[2])
            /\ surcharge' = surcharge + HashCost(buffer[2])
            /\ storage' = StoreInto(storage, StoreKey(buffer[2]), buffer[2])
            /\ store_calls' =
                 Append(store_calls, <<StoreKey(buffer[2]), buffer[2], value>>)
            /\ ReturnOk(from_bool(TRUE))

\* lines 166-183
ResumeRetrieveByHash ==
    /\ Resuming("retrieve_by_hash")
    /\ NoCharge /\ Quiet
    /\ tail' = tail
    /\ UNCHANGED <<storage, store_calls>>
    /\ IF IsVecAtom(value)
       THEN LET prefixed_hash == PrefixedHash(value[2])
                xs == Load(prefixed_hash)
            IN  /\ load_calls' = Append(load_calls, prefixed_hash)
                /\ IF xs # None
                   THEN IF IsErr(deserialize(xs[2]))
                        THEN Raise(Err("StorageCorrupt"))
                        ELSE ReturnOk(new_cell(from_bool(TRUE),
                                               deserialize(xs[2])[2]))
                   ELSE ReturnOk(from_bool(FALSE))
       ELSE /\ load_calls' = load_calls
            /\ Raise(Err("BadArgument"))

Next ==
    \/ Eval
    \/ Rerun
    \/ Discard
    \/ TrialHead
    \/ TrialAlone
    \/ TrialAfter
    \/ TrialWhole
    \/ AsByte
    \/ StepTickLimit
    \/ StepAtomicFormula
    \/ StepDistribute
    \/ StepNotAnOpcode
    \/ StepAxis
    \/ StepLiteral
    \/ StepRecurse
    \/ StepIsCell
    \/ StepIncrement
    \/ StepIsEqual
    \/ StepIf
    \/ StepCompose
    \/ StepDefine
    \/ StepCall
    \/ StepHash
    \/ StepStoreByHash
    \/ StepRetrieveByHash
    \/ StepBadOpcode
    \/ Propagate
    \/ ResumeDistributeLhs
    \/ ResumeDistributeRhs
    \/ ResumeRecurseB
    \/ ResumeRecurseC
    \/ ResumeIsCell
    \/ ResumeIncrement
    \/ ResumeIsEqual
    \/ ResumeIfCond
    \/ ResumeIfBranch
    \/ ResumeCompose
    \/ ResumeDefine
    \/ ResumeCall
    \/ ResumeHash
    \/ ResumeStoreByHash
    \/ ResumeRetrieveByHash

Spec == Init /\ [][Next]_vars

\* The steps of a running evaluation; eval runs to completion once called.
Running ==
    \/ StepTickLimit \/ StepAtomicFormula \/ StepDistribute \/ StepNotAnOpcode
    \/ StepAxis \/ StepLiteral \/ StepRecurse \/ StepIsCell \/ StepIncrement
    \/ StepIsEqual \/ StepIf \/ StepCompose \/ StepDefine \/ StepCall
    \/ StepHash \/ StepStoreByHash \/ StepRetrieveByHash \/ StepBadOpcode
    \/ Propagate \/ ResumeDistributeLhs \/ ResumeDistributeRhs
    \/ ResumeRecurseB \/ ResumeRecurseC \/ ResumeIsCell \/ ResumeIncrement
    \/ ResumeIsEqual \/ ResumeIfCond \/ ResumeIfBranch \/ ResumeCompose
    \/ ResumeDefine \/ ResumeCall \/ ResumeHash \/ ResumeStoreByHash
    \/ ResumeRetrieveByHash

LiveSpec == Spec /\ WF_vars(Running)

TypeOK ==
    /\ phase \in {"idle", "running", "done"}
    /\ ticks_used >= 0
    /\ (phase = "running") = (Len(stack) > 0)
    /\ (phase = "done") => result # NoResult

(***************************************************************************)
(* Properties.                                                             *)
(***************************************************************************)
Finished == phase = "done"
\* The current run repeats an earlier, terminated run of an expression
\* that is a cell of subject and formula.
HasReference == reference # NoReference /\ is_cell(expression)
ReferenceTicks == reference[2]
ReferenceLastCharge == reference[3]
ReferenceResult == reference[4]

\* C1 (as stated): an expression that terminates with a result after t
\* ticks returns that result under every tick limit k >= t and
\* TickLimitExceeded under every k < t.
C1_SameResultFromT ==
    (Finished /\ HasReference /\ IsOk(ReferenceResult)) =>
        IF tick_cap >= ReferenceTicks
        THEN result = ReferenceResult
        ELSE result = TickLimitExceeded

\* C1 (amended): an expression that terminates with a result after t
\* ticks returns that result under every tick limit k > t, and
\* TickLimitExceeded under every k <= t', where t' is the counter right
\* after the last one-tick charge (t' = t unless a HASH / STORE_BY_HASH
\* surcharge follows the last charge).
C1_SameResultAboveT ==
    (Finished /\ HasReference) =>
        /\ (tick_cap > ReferenceTicks => result = ReferenceResult)
        /\ (tick_cap <= ReferenceLastCharge => result = TickLimitExceeded)

\* A run with a limit above t of an expression whose last charge is
\* followed by a surcharge has returned its noun.
C1_Witness ==
    /\ Finished /\ HasReference
    /\ ReferenceTicks > ReferenceLastCharge
    /\ tick_cap > ReferenceTicks
    /\ tick_cap < MaxTickLimit
    /\ IsOk(result)

\* STORE_BY_HASH has been executed on n against this engine: the engine
\* held the entry it writes when the current evaluation started.
Stored(n) == <<StoreKey(Encode(n)), Encode(n)>> \in storage0

\* C2: once STORE_BY_HASH has stored n, RETRIEVE_BY_HASH on the atom HASH
\* returns for n yields (loobean true, n), whatever the digest is.
C2_StoreThenRetrieve ==
    \A n \in Storables :
        (Finished /\ expression = Cell(n, HashThenRetrieve) /\ Stored(n)
            /\ result # TickLimitExceeded)
        => (IsOk(result) /\ StructEq(result[2], Cell(from_bool(TRUE), n)))

\* C3: IS_EQUAL of a pair (a b) is loobean true iff a and b are atoms of
\* equal numeric value or cells with pairwise-equal components, whatever
\* the representation of the atoms.
C3_StructuralEquality ==
    \A q \in EqualPairs :
        (Finished /\ expression = Cell(Cell(q[1], q[2]), IsEqualOfSubject)
            /\ IsOk(result))
        => result[2] = from_bool(StructEq(q[1], q[2]))

\* C4: the first error raised is what eval returns; once it is raised no
\* loop iteration starts and no store or load call is made, and the store
\* calls made before it stay in the side effector.
C4_FirstErrorReturned ==
    /\ (Finished /\ IsErr(result)) => raised # NoResult
    /\ raised # NoResult =>
        /\ iterations = raised[3]
        /\ Len(store_calls) = raised[4]
        /\ Len(load_calls) = raised[5]
        /\ Finished => result = raised[2]
        /\ phase = "running" => ret = raised[2]
        /\ \A i \in 1..Len(store_calls) :
              <<store_calls[i][1], store_calls[i][2]>> \in storage

\* An error raised in a nested frame after a store call has been returned.
C4_Witness ==
    /\ Finished
    /\ IsErr(result) /\ result # TickLimitExceeded
    /\ Len(store_calls) = 1
    /\ iterations > 2

\* C5: every store call has a 65-byte key, the tag byte 0x01 followed by
\* the 64-byte hash of the value stored, the value is the serialization of
\* the noun the argument formula evaluated to, and the step that stores
\* returns loobean true.
C5_ContentAddressedStore ==
    /\ [](\A i \in 1..Len(store_calls) :
            LET key == store_calls[i][1]
                stored == store_calls[i][2]
                noun == store_calls[i][3]
            IN  /\ Len(key) = HashLen + 1
                /\ key[1] = 1
                /\ SubSeq(key, 2, Len(key)) = Blake2b(stored)
                /\ Serialize(noun) = Ok(stored))
    /\ [][Len(store_calls') = Len(store_calls) + 1 =>
            \/ ret' = Ok(from_bool(TRUE))
            \/ Finished' /\ result' = Ok(from_bool(TRUE))]_vars

\* An evaluation whose STORE_BY_HASH stored and returned loobean true.
C5_Witness ==
    /\ Finished
    /\ Len(store_calls) = 1
    /\ result = Ok(ByteAtom(0))

\* C6: whenever eval returns a noun the tick counter is strictly below
\* the tick cap.
C6_OkBelowCap == (Finished /\ IsOk(result)) => ticks_used < tick_cap

TailOpcodes == {RECURSE, COMPOSE, DEFINE_OP, CALL}
LoopExpression == Cell(LoopFormula, LoopFormula)

\* C7: a continuation of RECURSE, COMPOSE, DEFINE or CALL runs in the
\* frame that dispatched the opcode: the depth at the next loop iteration
\* is the depth at dispatch, so a chain of continuations stays at one depth.
C7_TailReuse ==
    /\ tail[1] \in TailOpcodes => (depth = tail[2] /\ top.pc = "loop")
    /\ expression = LoopExpression => depth <= 2

\* The sixth continuation and later of the self-applying RECURSE.
C7_Witness ==
    /\ expression = LoopExpression
    /\ tail[1] = RECURSE
    /\ iterations >= 18

\* C8: the taken branch of IF is reduced in the frame that dispatched IF.
C8_IfTailReuse == tail[1] = IF_OP => depth = tail[2]

\* C9: RETRIEVE_BY_HASH of an atom under whose key the side effector holds
\* nothing returns loobean false and leaves the store as it was;
\* BadArgument is returned only for a cell.
C9_RetrieveMiss ==
    (Finished /\ is_cell(expression) /\ expression[3] = Retrieve
        /\ result # TickLimitExceeded)
    => LET a == expression[2] IN
       /\ (~is_cell(a) /\ ~\E p \in storage0 : p[1] = PrefixedHash(AtomBytes(a)))
            => (result = Ok(from_bool(FALSE)) /\ storage = storage0)
       /\ result = Err("BadArgument") => is_cell(a)

\* The bound C10 puts on the loop iterations of one evaluation.
IterationBound == IF tick_cap = 0 THEN 1 ELSE tick_cap

\* C10: every evaluation returns, and the loop iterations of all its
\* frames together never exceed the tick limit (1 for the limit 0).
C10_Terminates ==
    /\ [](iterations <= IterationBound)
    /\ (phase = "running" ~> Finished)

\* The self-applying RECURSE stopped by the cap after as many iterations
\* as the limit allows.
C10_Witness ==
    /\ Finished
    /\ expression = LoopExpression
    /\ tick_cap >= 20
    /\ iterations = tick_cap
    /\ result = TickLimitExceeded

\* The whole formula of a case of the given kind has been evaluated, after
\* its parts.
WholeDone(kind) ==
    Finished /\ trial.stage = "whole" /\ trial.case.kind = kind
HeadResult == trial.head.result
AloneResult == trial.alone.result
AfterResult == trial.after.result

\* C11 (as stated): when eval(s, (f g)), eval(s, f) and eval(s, g) each
\* succeed from the same side-effector state, eval(s, (f g)) is the cell of
\* eval(s, f) and eval(s, g), also when f or g stores or retrieves.
C11_DistributeCommutes ==
    (WholeDone("distribute") /\ IsOk(result) /\ IsOk(HeadResult)
        /\ IsOk(AloneResult))
    => result = Ok(new_cell(HeadResult[2], AloneResult[2]))

\* C11 (amended): when eval(s, (f g)), eval(s, f) and eval(s, g) each
\* succeed, eval(s, f) and eval(s, (f g)) started from the same
\* side-effector state and eval(s, g) from the state eval(s, f) leaves
\* (the same state when f makes no store call), eval(s, (f g)) is the
\* cell of eval(s, f) and eval(s, g).
C11_DistributeInOrder ==
    (WholeDone("distribute") /\ IsOk(result) /\ IsOk(HeadResult)) =>
        /\ IsOk(AfterResult) =>
              result = Ok(new_cell(HeadResult[2], AfterResult[2]))
        /\ (trial.head.stores = <<>> /\ IsOk(AloneResult)) =>
              result = Ok(new_cell(HeadResult[2], AloneResult[2]))

\* A distribute whose head stored what its tail then retrieved.
C11_Witness ==
    /\ WholeDone("distribute")
    /\ IsOk(result) /\ IsOk(HeadResult) /\ IsOk(AfterResult)
    /\ trial.head.stores # <<>>
    /\ AfterResult # AloneResult
    /\ is_cell(result[2][3])

\* C12: as_byte returns Some(v) exactly when the noun is an atom of
\* numeric value v < 256, in any representation (the empty byte sequence
\* and trailing zero bytes included), None otherwise, and never aborts.
C12_AsByteFitsInByte ==
    probe # NoProbe =>
        LET n == probe[1]
            returned == probe[2]
        IN  /\ returned # Panic
            /\ IF ~is_cell(n) /\ NumVal(AtomBytes(n)) < 256
               THEN returned = Some(NumVal(AtomBytes(n)))
               ELSE returned = None

\* An atom of the given numeric value, in any representation.
IsAtomOf(n, v) == ~is_cell(n) /\ NumVal(AtomBytes(n)) = v

\* The whole formula did what its first sub-evaluation did and nothing
\* more: no second sub-evaluation was started.
OnlyHeadRan ==
    /\ store_calls = trial.head.stores
    /\ load_calls = trial.head.loads
    /\ storage = trial.head.storage
    /\ iterations = 1 + trial.head.iterations

\* The whole formula did what its two sub-evaluations did, the first and
\* then the second, and nothing more.
BothRanInOrder ==
    /\ store_calls = trial.head.stores \o trial.after.stores
    /\ load_calls = trial.head.loads \o trial.after.loads
    /\ storage = trial.after.storage
    /\ iterations = 1 + trial.head.iterations + trial.after.iterations

\* An opcode applied to an argument that is not a cell of two (for IF: of
\* three) has been evaluated under a limit that admits its one step.
Malformed(opcode) ==
    /\ Finished
    /\ is_cell(expression) /\ is_cell(expression[3])
    /\ expression[3][2] = B(opcode)
    /\ IF opcode = IF_OP
       THEN ~(is_cell(expression[3][3]) /\ is_cell(expression[3][3][3]))
       ELSE ~is_cell(expression[3][3])
    /\ result # TickLimitExceeded

\* The step failed with BadArgument before anything was evaluated.
BadArgumentAtOnce ==
    /\ result = Err("BadArgument")
    /\ iterations = 1
    /\ store_calls = <<>> /\ load_calls = <<>> /\ storage = storage0

\* C13: IF (b c d) evaluates b against the subject; on atom 0 its result
\* is eval(subject, c) and d is never evaluated, on atom 1 it is
\* eval(subject, d) and c is never evaluated, on any other result it fails
\* with BadIfCondition and neither is evaluated; an argument that is not a
\* triple fails with BadArgument before anything is evaluated.
C13_IfBranchSelection ==
    /\ (WholeDone("if") /\ result # TickLimitExceeded) =>
          LET t == trial.case
              zero == IsOk(HeadResult) /\ IsAtomOf(HeadResult[2], 0)
              one == IsOk(HeadResult) /\ IsAtomOf(HeadResult[2], 1)
          IN  /\ trial.head.expression = Cell(t.subject, t.b)
              /\ IsErr(HeadResult) => (result = HeadResult /\ OnlyHeadRan)
              /\ zero =>
                    /\ trial.after.expression = Cell(t.subject, t.c)
                    /\ result = AfterResult
                    /\ BothRanInOrder
              /\ one =>
                    /\ trial.after.expression = Cell(t.subject, t.d)
                    /\ result = AfterResult
                    /\ BothRanInOrder
              /\ (IsOk(HeadResult) /\ ~zero /\ ~one) =>
                    (result = Err("BadIfCondition") /\ OnlyHeadRan)
    /\ Malformed(IF_OP) => BadArgumentAtOnce

\* An IF whose condition was atom 1 returned what d returns, and its c,
\* which stores, was not evaluated.
C13_Witness ==
    /\ WholeDone("if")
    /\ HeadResult = Ok(B(1))
    /\ trial.case.c = Store(1)
    /\ result = Ok(B(7))
    /\ store_calls = <<>>

\* C14: eval(s, (8 b c)) equals eval(cell(eval(s, b), s), c): the new
\* subject has the result of b at axis 2 and the unmodified subject at
\* axis 3; an argument that is not a cell fails with BadArgument.
C14_DefinePushesSubject ==
    /\ (WholeDone("define") /\ result # TickLimitExceeded) =>
          LET t == trial.case IN
          /\ trial.head.expression = Cell(t.subject, t.b)
          /\ IsErr(HeadResult) => (result = HeadResult /\ OnlyHeadRan)
          /\ IsOk(HeadResult) =>
                /\ trial.after.expression =
                     Cell(Cell(HeadResult[2], t.subject), t.c)
                /\ axis(trial.after.expression[2], B(2)) = HeadResult
                /\ axis(trial.after.expression[2], B(3)) = Ok(t.subject)
                /\ result = AfterResult
                /\ BothRanInOrder
    /\ Malformed(DEFINE_OP) => BadArgumentAtOnce

\* test::push_1 with its axes apart: c pairs axis 3 with axis 2 of the
\* new subject, the original subject and the result of b.
C14_Witness ==
    /\ WholeDone("define")
    /\ trial.case.c = Cell(Ax(3), Ax(2))
    /\ result = Ok(Cell(B(42), B(43)))

\* HASH or STORE_BY_HASH is about to serialize the noun its argument
\* evaluated to, and the serialization succeeds.
Serializes ==
    /\ phase = "running" /\ ret # NoResult /\ IsOk(ret)
    /\ top.pc \in {"hash", "store_by_hash"}
    /\ ~HasOverlongAtom(ret[2])
    /\ Len(Encode(ret[2])) <= SerializeMax

\* C15: the tick counter is the number of loop iterations started in all
\* frames plus, for each HASH or STORE_BY_HASH that serialized
\* successfully, 20 + the serialized length; nothing else (RETRIEVE_BY_HASH
\* and a failed serialization included) adds ticks, and the counter never
\* decreases during an evaluation.
C15_TickAccounting ==
    /\ [](ticks_used = iterations + surcharge)
    /\ [][phase = "running" =>
            /\ ticks_used' >= ticks_used
            /\ IF AtLoop
               THEN /\ ticks_used' = ticks_used + 1
                    /\ iterations' = iterations + 1
                    /\ surcharge' = surcharge
               ELSE IF Serializes
               THEN /\ ticks_used' =
                         ticks_used + HashBaseCost + Len(Encode(ret[2]))
                    /\ iterations' = iterations
                    /\ surcharge' =
                         surcharge + HashBaseCost + Len(Encode(ret[2]))
               ELSE /\ ticks_used' = ticks_used
                    /\ iterations' = iterations
                    /\ surcharge' = surcharge]_vars

\* A distribute that stored a three-byte serialization in one child and
\* retrieved in the other: its iterations and one surcharge of 23.
C15_Witness ==
    /\ Finished /\ IsOk(result)
    /\ depth = 0
    /\ Len(store_calls) = 1 /\ Len(load_calls) = 1
    /\ iterations = 5
    /\ ticks_used = iterations + HashBaseCost + Len(store_calls[1][2])

\* The errors a step returns for the formula it inspects.
FormulaErrors == {"AtomicFormula", "NotAnOpcode", "BadOpcode"}

\* C16: the tick is charged and compared with the cap before the formula
\* is inspected: a step whose charge reaches the cap fails with
\* TickLimitExceeded whatever the formula is, and AtomicFormula,
\* NotAnOpcode and BadOpcode come only from a step whose check passed.
\* With tick limit 0 or 1 every cell expression yields TickLimitExceeded;
\* a non-cell expression yields Something under every limit and charges
\* nothing.
C16_TickCheckFirst ==
    /\ [][(AtLoop /\ ticks_used + 1 >= tick_cap) =>
            /\ ticks_used' = ticks_used + 1
            /\ \/ ret' = TickLimitExceeded
               \/ Finished' /\ result' = TickLimitExceeded]_vars
    /\ []((raised # NoResult /\ raised[2][2] \in FormulaErrors) =>
            (last_charge = ticks_used /\ ticks_used < tick_cap))
    /\ []((Finished /\ is_cell(expression) /\ tick_cap <= 1) =>
            (result = TickLimitExceeded /\ iterations = 1))
    /\ []((Finished /\ ~is_cell(expression)) =>
            /\ result = Err("Something")
            /\ ticks_used = 0 /\ iterations = 0
            /\ store_calls = <<>> /\ load_calls = <<>>)

\* An expression whose formula is an atom, evaluated with tick limit 1.
C16_Witness ==
    /\ Finished
    /\ expression = Cell(B(0), B(5))
    /\ tick_cap = 1
    /\ result = TickLimitExceeded

IsPrefix(a, b) == Len(a) <= Len(b) /\ SubSeq(b, 1, Len(a)) = a

\* Where the outermost frame waits for its first and for its second
\* sub-evaluation in distribute, RECURSE and IF.
EarlierWaits == {"dist_lhs", "recurse_b", "if_cond"}
LaterWaits == {"dist_rhs", "recurse_c", "if_branch"}

\* The whole formula of a distribute, RECURSE or IF case is in evaluation,
\* or has just returned.
InOrderedWhole ==
    /\ trial.stage = "whole"
    /\ trial.case.kind \in {"distribute", "recurse", "if"}

\* C17: within one step the sub-evaluations run left to right and never
\* interleave: the earlier one (distribute's head, RECURSE's b, IF's
\* condition) runs to completion, with all its store and load calls,
\* before the later one starts; the later one runs on the engine as the
\* earlier left it, so its RETRIEVE_BY_HASH observes the earlier
\* STORE_BY_HASH; and when the earlier fails the later is never started.
C17_SubEvaluationOrder ==
    /\ (InOrderedWhole /\ phase = "running" /\ stack[1].pc \in EarlierWaits) =>
          /\ IsPrefix(store_calls, trial.head.stores)
          /\ IsPrefix(load_calls, trial.head.loads)
          /\ (depth = 1 /\ ret # NoResult) =>
                /\ ret = HeadResult
                /\ store_calls = trial.head.stores
                /\ load_calls = trial.head.loads
                /\ storage = trial.head.storage
    /\ (InOrderedWhole /\ phase = "running" /\ stack[1].pc \in LaterWaits) =>
          /\ IsOk(HeadResult)
          /\ IsPrefix(trial.head.stores, store_calls)
          /\ IsPrefix(store_calls, trial.head.stores \o trial.after.stores)
          /\ IsPrefix(trial.head.loads, load_calls)
          /\ IsPrefix(load_calls, trial.head.loads \o trial.after.loads)
          /\ (depth = 1 /\ ret # NoResult) =>
                /\ ret = AfterResult
                /\ store_calls = trial.head.stores \o trial.after.stores
                /\ load_calls = trial.head.loads \o trial.after.loads
                /\ storage = trial.after.storage
    /\ (InOrderedWhole /\ Finished /\ IsErr(HeadResult)
          /\ result # TickLimitExceeded) =>
          (result = HeadResult /\ OnlyHeadRan)

\* A RECURSE whose c has just retrieved what its b stored, which the same
\* c misses on the engine as it was before b ran.
C17_Witness ==
    /\ InOrderedWhole /\ phase = "running"
    /\ depth = 1 /\ stack[1].pc = "recurse_c"
    /\ trial.head.stores # <<>>
    /\ AloneResult = Ok(from_bool(FALSE))
    /\ ret # NoResult /\ IsOk(ret) /\ is_cell(ret[2])
    /\ ret[2][2] = from_bool(TRUE)

\* The argument of the opcode waiting at pc has just evaluated to a noun.
Evaluated(pc) ==
    phase = "running" /\ ret # NoResult /\ IsOk(ret) /\ top.pc = pc

\* C18: during an evaluation store is called only by STORE_BY_HASH, once
\* per execution and only after its argument evaluated and serialized
\* successfully (a failed serialization writes nothing); load is called
\* only by RETRIEVE_BY_HASH, at most once per execution; every other step
\* leaves the stored contents and both call sequences unchanged.
C18_SideEffectFrame ==
    [][phase = "running" =>
         /\ IF Evaluated("store_by_hash") /\ ~HasOverlongAtom(ret[2])
                /\ Len(Encode(ret[2])) <= SerializeMax
            THEN /\ Len(store_calls') = Len(store_calls) + 1
                 /\ IsPrefix(store_calls, store_calls')
                 /\ storage' =
                      StoreInto(storage, store_calls'[Len(store_calls')][1],
                                store_calls'[Len(store_calls')][2])
            ELSE /\ store_calls' = store_calls
                 /\ storage' = storage
         /\ IF Evaluated("retrieve_by_hash")
            THEN /\ Len(load_calls') <= Len(load_calls) + 1
                 /\ IsPrefix(load_calls, load_calls')
            ELSE load_calls' = load_calls]_vars

\* A STORE_BY_HASH whose argument holds an atom too wide to serialize
\* returned BadArgument and wrote nothing.
C18_Witness ==
    /\ Finished
    /\ expression = Cell(OverlongAtom, Op(STORE_BY_HASH, Ax(1)))
    /\ result = Err("BadArgument")
    /\ iterations = 2
    /\ store_calls = <<>>
    /\ storage = storage0

====
